---- MODULE Spec2Model ----
(***************************************************************************)
(* The spec-to-figure compiler of the repository: the VizSpec schema       *)
(* (pydantic_viz_spec.py) and the engine (viz_engine.py), both presented   *)
(* in src/more_stuff.md.  One compile call is a run of the state machine:  *)
(* parse_viz_spec, _ensure_columns, the per-family trace builder, the      *)
(* layout, barmode, _guard_traces, the json.dumps check, return.           *)
(***************************************************************************)
EXTENDS Integers, Sequences, FiniteSets, TLC

VARIABLES entry, raw, table, pc, model, pending, traces, layoutOut, outcome,
          missing, returned, cast, steps, guardSeen, qc, cm, plot

\* the variables of one compile call (viz_engine.py)
engineVars == <<entry, raw, table, pc, model, pending, traces, layoutOut, outcome,
                missing, returned, cast, steps, guardSeen>>

\* qc: the query cache of the dashboard hooks (src/file.ts); cm: the comments
\* panel (src/tanquery_stack.md); plot: the Plot component (src/PlotlyFig3.tsx)
vars == <<engineVars, qc, cm, plot>>

-----------------------------------------------------------------------------
(* Bounds of the model and constants of the program                         *)

\* longest table (number of rows) the calls are made with
MaxRows == 3

\* max_traces passed to _guard_traces by compile_figure
MaxTraces == 64

\* Python's None for an optional string field
None == "<none>"

\* NaN / missing cell value of a DataFrame column
Null == 0

\* no series key (the trace is not one group of a groupby)
NoKey == -1

-----------------------------------------------------------------------------
(* Enums of pydantic_viz_spec.py                                            *)

ChartType == {"line", "scatter", "bar", "histogram", "box", "heatmap", "pie", "area"}

Mode == {"lines", "markers", "lines+markers"}

Orientation == {"v", "h"}

BarMode == {"group", "stack", "relative"}

HistNorm == {"none", "percent", "probability", "density"}

-----------------------------------------------------------------------------
(* Helpers on sequences                                                     *)

Range(s) == {s[i] : i \in 1..Len(s)}

NoDuplicates(s) == \A i, j \in 1..Len(s) : s[i] = s[j] => i = j

Min(S) == CHOOSE m \in S : \A n \in S : m <= n

RECURSIVE SortedSeq(_)
\* the elements of a finite set of integers in ascending order
SortedSeq(S) == IF S = {} THEN <<>>
                ELSE <<Min(S)>> \o SortedSeq(S \ {Min(S)})

-----------------------------------------------------------------------------
(* The DataFrame                                                            *)

\* df.columns: "a" and "b" hold categories, "c" holds a per-row measure
Columns == {"a", "b", "c"}

\* one row of the frame: the cells of columns a and b (a may be missing/NaN)
Rows == [a : {1, 2, Null}, b : {1, 2}]

RECURSIVE TablesOfLen(_)
TablesOfLen(n) == IF n = 0 THEN {<<>>}
                  ELSE {Append(t, r) : t \in TablesOfLen(n - 1), r \in Rows}

Tables == UNION {TablesOfLen(n) : n \in 0..MaxRows}

\* df[col].iloc[i]; column c is the measure 10 + i, distinct in every row
Cell(t, i, col) == IF col = "a" THEN t[i].a
                   ELSE IF col = "b" THEN t[i].b
                   ELSE 10 + i

AllRows(t) == [i \in 1..Len(t) |-> i]

-----------------------------------------------------------------------------
(* The raw spec handed to parse_viz_spec and the schema's validators       *)

\* an absent or empty labels dict
NoLabels == [k \in {} |-> ""]

\* data.y : Optional[Union[str, List[str]]]
NoY == [kind |-> "none", cols |-> <<>>]

StrY(c) == [kind |-> "str", cols |-> <<c>>]

ListY(cs) == [kind |-> "list", cols |-> cs]

\* bool(v) of an Optional[str]
Truthy(s) == s # None /\ s # ""

\* bool(data.y)
TruthyY(y) == IF y.kind = "str" THEN Truthy(y.cols[1]) ELSE y.kind = "list" /\ y.cols # <<>>

\* DataSpec._unique_y_list: a list y is non-empty and has no duplicates
unique_y_list(y) == y.kind = "list" => (y.cols # <<>> /\ NoDuplicates(y.cols))

\* field validation of the chart section: every field is None or in its enum
ChartFieldsOk(c) == /\ c.type \in ChartType
                    /\ c.mode \in Mode \cup {None}
                    /\ c.orientation \in Orientation \cup {None}
                    /\ c.barmode \in BarMode \cup {None}
                    /\ c.histnorm \in HistNorm \cup {None}

\* the validator of the draft schema in src/stuff.md: orientation is kept as it is
defaults_and_semantics_draft(c) ==
    [type        |-> c.type,
     mode        |-> IF c.type \in {"line", "area"} /\ c.mode = None THEN "lines" ELSE c.mode,
     orientation |-> c.orientation,
     barmode     |-> c.barmode,
     histnorm    |-> IF c.type # "histogram" THEN None ELSE c.histnorm]

\* ChartSpec._defaults_and_semantics: defaults and family-irrelevant fields
defaults_and_semantics(c) ==
    [type        |-> c.type,
     mode        |-> IF c.type \in {"line", "area"} /\ c.mode = None THEN "lines" ELSE c.mode,
     orientation |-> IF c.type # "bar" THEN None ELSE c.orientation,
     barmode     |-> c.barmode,
     histnorm    |-> IF c.type # "histogram" THEN None ELSE c.histnorm]

\* the chart section validates: values["chart"] is set for the root validator
ChartOk(r) == r.hasChart /\ ChartFieldsOk(r.chart)

\* a color is a string, written as the sequence of its characters
HexDigits == {"0", "1", "2", "3", "4", "5", "6", "7", "8", "9",
              "a", "b", "c", "d", "e", "f", "A", "B", "C", "D", "E", "F"}

Chars == HexDigits \cup {"#", "r", "g", "n"}

\* _HEX.match(s): '#' and then six or eight hex digits
HEX_match(s) == /\ Len(s) \in {1 + 6, 1 + 8}
                /\ s[1] = "#"
                /\ \A i \in 2..Len(s) : s[i] \in HexDigits

\* isinstance(s, str)
isinstance_str(s) == s \in Seq(Chars)

\* _valid_color
valid_color(s) == HEX_match(s) \/ isinstance_str(s)

\* ColorsSpec._validate_colors on the values of color_map and
\* LayoutSpec._validate_colorway on colorway: None and empty pass unchecked
validate_colors(v) == v = <<>> \/ \A n \in 1..Len(v) : valid_color(v[n])

\* the data section validates: values["data"] is set for the root validator
DataOk(r) == r.hasData /\ unique_y_list(r.data.y) /\ validate_colors(r.data.color_map)

\* the layout section validates
LayoutOk(r) == validate_colors(r.colorway)

\* the names among x, y, z that are None (heatmap check of _semantic_checks)
HeatmapMissing(d) == {k \in {"x", "y", "z"} :
                        \/ k = "x" /\ d.x = None
                        \/ k = "y" /\ d.y.kind = "none"
                        \/ k = "z" /\ d.z = None}

\* y2_for must reference y columns if y is a list
Y2ForBad(d) == /\ d.y2_for # <<>>
               /\ d.y.kind = "list"
               /\ Range(d.y2_for) \ Range(d.y.cols) # {}

\* disallow simultaneous multi-y and series split
ListYWithSeriesBy(d) == d.y.kind = "list" /\ Truthy(d.by)

\* histogram must specify at least one column (x or y)
HistogramUnbound(dataOk, d) == ~(dataOk /\ (Truthy(d.x) \/ TruthyY(d.y)))

AreaMarkersAllowed(c) == FALSE

\* area must not be 'markers' only
AreaMarkersOnly(c) == c.type = "area" /\ c.mode = "markers"

\* VizSpec._semantic_checks over the values that validated (chart, data may be
\* absent): "ok", "ValueError" (collected by pydantic) or "AttributeError"
\* (getattr(data, k) with data None, which pydantic does not catch)
semantic_checks(chartOk, c, dataOk, d) ==
    IF chartOk /\ c.type = "heatmap" /\ ~dataOk THEN "AttributeError"
    ELSE IF chartOk /\ c.type = "heatmap" /\ HeatmapMissing(d) # {} THEN "ValueError"
    ELSE IF dataOk /\ Y2ForBad(d) THEN "ValueError"
    ELSE IF dataOk /\ ListYWithSeriesBy(d) THEN "ValueError"
    ELSE IF chartOk /\ c.type = "histogram" /\ HistogramUnbound(dataOk, d) THEN "ValueError"
    ELSE IF chartOk /\ AreaMarkersOnly(c) THEN "ValueError"
    ELSE "ok"

\* Config.extra = "ignore", as on PlotlyJSConfig: unknown keys are dropped
ExtraIgnored(r) == FALSE

\* Config.extra = "forbid" on VizSpec: a top-level key that is not a field of
\* the model is a validation error
ExtraForbidden(r) == r.extra

\* VizSpec.parse_raw / parse_obj: every field is validated, then the root
\* validator runs on what validated; the errors are raised together as one
\* ValidationError, any other exception escapes as it is; a string that is not
\* JSON, or an object that is not a mapping, is reported by pydantic's
\* parse_raw / parse_obj as a ValidationError too
VizSpecParse(r) ==
    LET c   == defaults_and_semantics(r.chart)
        sem == semantic_checks(ChartOk(r), c, DataOk(r), r.data)
    IN IF ~r.wellformed THEN "ValidationError"
       ELSE IF sem = "AttributeError" THEN "AttributeError"
       ELSE IF \/ ~ChartOk(r) \/ ~DataOk(r) \/ ~LayoutOk(r)
               \/ ExtraForbidden(r) \/ sem = "ValueError"
            THEN "ValidationError"
       ELSE "ok"

\* parse_viz_spec: ValidationError becomes SpecValidationError, every other
\* exception becomes SpecParseError
parse_viz_spec(r) ==
    LET res == VizSpecParse(r)
    IN IF res = "ValidationError" THEN "SpecValidationError"
       ELSE IF res = "ok" THEN "ok"
       ELSE "SpecParseError"

\* the VizSpec model built from an accepted input
VizSpec(r) == [chart     |-> defaults_and_semantics(r.chart),
               data      |-> r.data,
               hasLayout |-> r.hasLayout,
               colorway  |-> r.colorway]

\* parse_viz_spec on an instance of VizSpec: `return spec`
parse_viz_spec_instance(m) == m

\* a serializer that writes the render config under a camel-case key
SerializeCamelCase(m) ==
    [wellformed |-> TRUE, extra |-> TRUE, hasChart |-> TRUE, chart |-> m.chart,
     hasData |-> TRUE, data |-> m.data, hasLayout |-> m.hasLayout,
     colorway |-> m.colorway]

\* the canonical form VizSpec.json(): well-formed JSON with every field of the
\* model under its own name, the defaulted and the reset ones included
Serialize(m) ==
    [wellformed |-> TRUE, extra |-> FALSE, hasChart |-> TRUE, chart |-> m.chart,
     hasData |-> TRUE, data |-> m.data, hasLayout |-> m.hasLayout,
     colorway |-> m.colorway]

\* the model variable before parsing
NoModel == [chart     |-> [type |-> None, mode |-> None, orientation |-> None,
                           barmode |-> None, histnorm |-> None],
            data      |-> [x |-> None, y |-> NoY, z |-> None, text |-> None,
                           by |-> None, y2_for |-> <<>>, labels_y |-> NoLabels,
                           labels_series |-> NoLabels, name |-> None,
                           color_map |-> <<>>],
            hasLayout |-> FALSE,
            colorway  |-> <<>>]

-----------------------------------------------------------------------------
(* Helpers of viz_engine.py                                                 *)

\* _listify(data.y)
listify(y) == y.cols

\* [c for c in [data.x] + _listify(data.y) + [data.z, data.text] if c]
ReferencedColumns(d) == SelectSeq(<<d.x>> \o listify(d.y) \o <<d.z, d.text>>,
                                  LAMBDA c : Truthy(c))

\* a binder that stops at the first name that is not a column
ensure_columns_first(cols) ==
    LET absent == SelectSeq(cols, LAMBDA c : c \notin Columns)
    IN IF absent = <<>> THEN <<>> ELSE <<Head(absent)>>

\* _ensure_columns: missing = [c for c in cols if c not in df.columns]
ensure_columns(cols) == SelectSeq(cols, LAMBDA c : c \notin Columns)

\* data.y if it is a str or None, else data.y[0]
first_y(y) == IF y.kind = "none" THEN None ELSE y.cols[1]

YColumnsFirstOnly(y) == <<y.cols[1]>>

\* for yc in data.y: the y columns of a list-valued y, in list order
YColumns(y) == y.cols

\* _route_axis: the trace goes to y2 when its y column is listed in y2_for
route_axis(d, ycol) == d.y2_for # <<>> /\ ycol \in Range(d.y2_for)

RECURSIVE RowsWhere(_, _, _, _)
\* one group of a groupby: the indices (from i on) of the rows of t whose cell
\* in column col is v, in table order
RowsWhere(t, col, v, i) ==
    IF i > Len(t) THEN <<>>
    ELSE (IF Cell(t, i, col) = v THEN <<i>> ELSE <<>>) \o RowsWhere(t, col, v, i + 1)

RECURSIVE FirstSeen(_, _, _)
\* the distinct non-missing values of a column in the order of first occurrence
FirstSeen(t, col, i) ==
    IF i > Len(t) THEN <<>>
    ELSE LET rest == FirstSeen(t, col, i + 1)
             v    == Cell(t, i, col)
         IN IF v = Null THEN rest
            ELSE <<v>> \o SelectSeq(rest, LAMBDA w : w # v)

\* df.groupby(col, sort=False): the groups in order of first occurrence
groupby_unsorted(t, col) ==
    LET seen == FirstSeen(t, col, 1)
    IN [k \in 1..Len(seen) |->
          [key  |-> seen[k],
           rows |-> RowsWhere(t, col, seen[k], 1)]]

\* df.groupby(col): one (key, sub-frame) per distinct key, keys in sorted
\* order, rows with a missing key dropped, each sub-frame in frame order
groupby(t, col) ==
    LET keys   == {Cell(t, i, col) : i \in 1..Len(t)} \ {Null}
        sorted == SortedSeq(keys)
    IN [k \in 1..Len(sorted) |->
          [key  |-> sorted[k],
           rows |-> RowsWhere(t, col, sorted[k], 1)]]

\* df.duplicated(subset=[x, y], keep=False).any()
duplicated(t, x, y) == \E i, j \in 1..Len(t) :
                          /\ i # j
                          /\ Cell(t, i, x) = Cell(t, j, x)
                          /\ Cell(t, i, y) = Cell(t, j, y)

\* a trace built without a name argument
Unnamed == "<unnamed>"

\* dict.get(k, default) on a labels dict
Get(labels, k, default) == IF k \in DOMAIN labels THEN labels[k] ELSE default

\* _label_y: "" without a y column, else its labels.y entry or the column name
label_y(d, ycol) == IF ycol = None THEN "" ELSE Get(d.labels_y, ycol, ycol)

\* a series namer that does not consult labels.series
label_series_raw(d, key) == ToString(key)

\* _label_series for a groupby key (never None, so the fallback is not used):
\* the labels.series entry of str(key), or str(key)
label_series(d, key) == Get(d.labels_series, ToString(key), ToString(key))

\* one trace handed to fig.add_trace: its family, the frame rows it is built
\* from, the columns bound to its x and y, its series key, its y axis, its name
Trace(family, xsrc, ysrc, ycol, key, rows, y2, name) ==
    [family |-> family, xsrc |-> xsrc, ysrc |-> ysrc, ycol |-> ycol,
     key |-> key, rows |-> rows, y2 |-> y2, name |-> name]

\* df[X] where X is the list data.y: a frame of several columns, not a column
Frame == "<frame>"

\* what a trace builder does: the traces it adds, or the exception it raises
Built(ts) == [err |-> "ok", traces |-> ts]

Raised(e) == [err |-> e, traces |-> <<>>]

-----------------------------------------------------------------------------
(* The trace builders                                                       *)

\* _add_scatter_family
add_scatter_family(t, m) ==
    LET d == m.data
        x == IF Truthy(d.x) THEN d.x ELSE None
    IN IF d.y.kind = "list" /\ ~Truthy(d.by)
       THEN Built([n \in 1..Len(YColumns(d.y)) |->
                     Trace("scatter", x, YColumns(d.y)[n], YColumns(d.y)[n], NoKey,
                           AllRows(t), route_axis(d, YColumns(d.y)[n]),
                           label_y(d, YColumns(d.y)[n]))])
       ELSE IF Truthy(d.by)
       THEN IF d.by \notin Columns THEN Raised("KeyError")
            ELSE LET g    == groupby(t, d.by)
                     ycol == first_y(d.y)
                 IN Built([n \in 1..Len(g) |->
                             Trace("scatter", x, IF Truthy(ycol) THEN ycol ELSE None, ycol,
                                   g[n].key, g[n].rows, route_axis(d, ycol),
                                   label_series(d, g[n].key))])
       ELSE LET ycol == first_y(d.y)
            IN Built(<<Trace("scatter", x, IF Truthy(ycol) THEN ycol ELSE None, ycol,
                             NoKey, AllRows(t), route_axis(d, ycol), label_y(d, ycol))>>)

\* _add_bar
add_bar(t, m) ==
    LET d      == m.data
        orient == IF m.chart.orientation # None THEN m.chart.orientation ELSE "v"
    IN IF d.y.kind = "list" /\ ~Truthy(d.by)
       THEN IF orient = "v"
            THEN IF ~Truthy(d.x) THEN Raised("KeyError")
                 ELSE Built([n \in 1..Len(YColumns(d.y)) |->
                               Trace("bar", d.x, YColumns(d.y)[n], YColumns(d.y)[n], NoKey,
                                     AllRows(t), route_axis(d, YColumns(d.y)[n]),
                           label_y(d, YColumns(d.y)[n]))])
            ELSE Built([n \in 1..Len(YColumns(d.y)) |->
                          Trace("bar", YColumns(d.y)[n], Frame, YColumns(d.y)[n], NoKey,
                                AllRows(t), route_axis(d, YColumns(d.y)[n]),
                           label_y(d, YColumns(d.y)[n]))])
       ELSE IF d.y.kind = "none" THEN Raised("TypeError")
       ELSE LET ycol == first_y(d.y)
                xsrc == IF orient = "v" THEN d.x ELSE ycol
                ysrc == IF orient = "v" THEN ycol
                        ELSE IF d.y.kind = "list" THEN Frame ELSE ycol
            IN IF Truthy(d.by)
               THEN IF d.by \notin Columns THEN Raised("KeyError")
                    ELSE LET g == groupby(t, d.by)
                         IN IF orient = "v" /\ ~Truthy(d.x) /\ Len(g) > 0
                            THEN Raised("KeyError")
                            ELSE Built([n \in 1..Len(g) |->
                                          Trace("bar", xsrc, ysrc, ycol, g[n].key, g[n].rows,
                                                route_axis(d, ycol),
                                                label_series(d, g[n].key))])
               ELSE IF orient = "v" /\ ~Truthy(d.x) THEN Raised("KeyError")
               ELSE Built(<<Trace("bar", xsrc, ysrc, ycol, NoKey, AllRows(t),
                                  route_axis(d, ycol), label_y(d, ycol))>>)

\* _add_histogram
add_histogram(t, m) ==
    LET d   == m.data
        col == IF Truthy(d.x) THEN d.x ELSE first_y(d.y)
    IN IF col = None THEN Raised("KeyError")
       ELSE Built(<<Trace("histogram", col, None, col, NoKey, AllRows(t), FALSE,
                          Unnamed)>>)

\* _add_box
add_box(t, m) ==
    LET d == m.data
    IN IF Truthy(d.x) /\ d.y.kind = "str"
       THEN Built(<<Trace("box", d.x, d.y.cols[1], d.y.cols[1], NoKey, AllRows(t), FALSE,
                          label_y(d, d.y.cols[1]))>>)
       ELSE IF d.y.kind = "none" THEN Raised("KeyError")
       ELSE Built(<<Trace("box", None, first_y(d.y), first_y(d.y), NoKey, AllRows(t), FALSE,
                          label_y(d, first_y(d.y)))>>)

\* the values of a column that are not missing
Present(t, col) == {Cell(t, i, col) : i \in 1..Len(t)} \ {Null}

\* the labels of one axis of a pivot: the distinct values in ascending order;
\* a missing value (NaN) gets a label of its own, placed last here
AxisLabels(t, col) ==
    SortedSeq(Present(t, col))
    \o (IF \E i \in 1..Len(t) : Cell(t, i, col) = Null THEN <<Null>> ELSE <<>>)

\* the labels of one axis in the order the values first occur in the frame
AxisLabelsFirstSeen(t, col) ==
    LET S == {i \in 1..Len(t) : \A j \in 1..(i - 1) : Cell(t, j, col) # Cell(t, i, col)}
        firsts == SortedSeq(S)
    IN [k \in 1..Len(firsts) |-> Cell(t, firsts[k], col)]

\* the cells of a pivot: the value of the row with that (index, columns) pair,
\* NaN where the frame has no such row
PivotCells(t, index, columns, values, ys, xs) ==
    [r \in 1..Len(ys) |-> [c \in 1..Len(xs) |->
        LET hit == {i \in 1..Len(t) : /\ Cell(t, i, index) = ys[r]
                                      /\ Cell(t, i, columns) = xs[c]}
        IN IF hit = {} THEN Null ELSE Cell(t, Min(hit), values)]]

\* a pivot that keeps the order of first occurrence on both axes
pivot_first_seen(t, index, columns, values) ==
    LET ys == AxisLabelsFirstSeen(t, index)
        xs == AxisLabelsFirstSeen(t, columns)
    IN [index |-> ys, columns |-> xs,
        values |-> PivotCells(t, index, columns, values, ys, xs)]

\* df.pivot(index=, columns=, values=) on a frame with unique pairs: both axes
\* come out sorted
pivot(t, index, columns, values) ==
    LET ys == AxisLabels(t, index)
        xs == AxisLabels(t, columns)
    IN [index |-> ys, columns |-> xs,
        values |-> PivotCells(t, index, columns, values, ys, xs)]

\* .astype(str) on an axis label
astype_str(v) == IF v = Null THEN "nan" ELSE ToString(v)

\* go.Heatmap(z=mat.values, x=mat.columns.astype(str), y=mat.index.astype(str))
Heatmap(mat) ==
    [z |-> mat.values,
     x |-> [c \in 1..Len(mat.columns) |-> astype_str(mat.columns[c])],
     y |-> [r \in 1..Len(mat.index) |-> astype_str(mat.index[r])]]

\* df.values: the frame as a matrix, one row per frame row
df_values(t) == [i \in 1..Len(t) |-> <<Cell(t, i, "a"), Cell(t, i, "b"), Cell(t, i, "c")>>]

\* a heatmap builder that pivots without the uniqueness check
add_heatmap_unchecked(t, m) ==
    LET d == m.data
    IN IF Truthy(d.x) /\ TruthyY(d.y) /\ Truthy(d.z)
       THEN IF d.y.kind = "list" THEN Raised("TypeError")
            ELSE Built(<<Trace("heatmap", d.x, d.y.cols[1], None, NoKey, AllRows(t), FALSE,
                                 Unnamed)>>)
       ELSE Built(<<Trace("heatmap", None, None, None, NoKey, AllRows(t), FALSE, Unnamed)>>)

\* _add_heatmap
add_heatmap(t, m) ==
    LET d == m.data
    IN IF Truthy(d.x) /\ TruthyY(d.y) /\ Truthy(d.z)
       THEN IF d.y.kind = "list" THEN Raised("TypeError")
            ELSE IF duplicated(t, d.x, d.y.cols[1]) THEN Raised("AmbiguousAggregation")
            ELSE Built(<<Trace("heatmap", d.x, d.y.cols[1], None, NoKey, AllRows(t), FALSE,
                                 Unnamed)
                         @@ Heatmap(pivot(t, d.y.cols[1], d.x, d.z))>>)
       ELSE Built(<<Trace("heatmap", None, None, None, NoKey, AllRows(t), FALSE, Unnamed)
                    @@ [z |-> df_values(t)]>>)

\* the pie builder of the draft compiler in src/stuff.md: no binding check
add_pie_unchecked(t, m) ==
    LET d       == m.data
        val_col == first_y(d.y)
    IN IF ~(Truthy(d.x) /\ Truthy(val_col)) THEN Raised("KeyError")
       ELSE Built(<<Trace("pie", d.x, val_col, val_col, NoKey, AllRows(t), FALSE,
                          IF Truthy(d.name) THEN d.name ELSE label_y(d, val_col))>>)

\* _add_pie
add_pie(t, m) ==
    LET d       == m.data
        val_col == first_y(d.y)
    IN IF ~(Truthy(d.x) /\ Truthy(val_col)) THEN Raised("MissingBinding")
       ELSE Built(<<Trace("pie", d.x, val_col, val_col, NoKey, AllRows(t), FALSE,
                          IF Truthy(d.name) THEN d.name ELSE label_y(d, val_col))>>)

\* the dispatch on chart.type in compile_figure
add_traces(t, m) ==
    IF m.chart.type \in {"line", "scatter", "area"} THEN add_scatter_family(t, m)
    ELSE IF m.chart.type = "bar" THEN add_bar(t, m)
    ELSE IF m.chart.type = "histogram" THEN add_histogram(t, m)
    ELSE IF m.chart.type = "box" THEN add_box(t, m)
    ELSE IF m.chart.type = "heatmap" THEN add_heatmap(t, m)
    ELSE IF m.chart.type = "pie" THEN add_pie(t, m)
    ELSE Raised("Unsupported")

\* the exceptions the engine raises as CompileError, by raise site
CompileErrors == {"MissingColumns", "AmbiguousAggregation", "MissingBinding",
                  "TooManyTraces", "Unsupported"}

\* exceptions of the libraries that the engine does not catch
UncaughtErrors == {"KeyError", "TypeError", "ValueError"}

-----------------------------------------------------------------------------
(* The inputs of the calls                                                  *)

\* the two public entry points of viz_engine.py
Entries == {"compile_payload", "compile_figure"}

RawChart(type, mode, orientation, barmode, histnorm) ==
    [type |-> type, mode |-> mode, orientation |-> orientation,
     barmode |-> barmode, histnorm |-> histnorm]

\* the data section; labels and the static name are unset unless a spec sets them
RawData(x, y, z, text, by, y2_for) ==
    [x |-> x, y |-> y, z |-> z, text |-> text, by |-> by, y2_for |-> y2_for,
     labels_y |-> NoLabels, labels_series |-> NoLabels, name |-> None,
     color_map |-> <<>>]

RawSpec(chart, data, extra, hasLayout) ==
    [wellformed |-> TRUE, extra |-> extra, hasChart |-> TRUE, chart |-> chart,
     hasData |-> TRUE, data |-> data, hasLayout |-> hasLayout, colorway |-> <<>>]

\* the specs compiled against every table: every family, x bound or not, y
\* unbound, a column or a list, grouped or not, a missing text column
CompileSpecs ==
    {RawSpec(RawChart(type, None, orientation, None, None),
             RawData(x, y, z, text, by, <<>>), FALSE, FALSE) :
        type \in ChartType, orientation \in {None, "h"}, x \in {None, "a"},
        y \in {NoY, StrY("b"), ListY(<<"b", "c">>)}, z \in {None, "c"},
        text \in {None, "q"}, by \in {None, "a"}}

\* the combinations of CompileSpecs in which each field matters to the family
CompileInputs ==
    {r \in CompileSpecs :
        /\ r.chart.orientation # None => r.chart.type = "bar"
        /\ r.data.z # None => r.chart.type = "heatmap"
        /\ r.data.text # None => r.chart.type \in {"heatmap", "pie"}
        /\ r.data.by # None =>
              \/ r.chart.type \in {"line", "scatter", "area", "bar"}
              \/ r.data.x = "a" /\ r.data.y = StrY("b") /\ r.data.text = None}

\* specs that name columns the table does not have (p, q, r, s): in x, in y as a
\* column or inside a list, in z, in text, one or several at a time
MissingInputs ==
    {RawSpec(RawChart(type, None, None, None, None),
             RawData(x, y, z, text, None, <<>>), FALSE, FALSE) :
        type \in {"bar", "heatmap"}, x \in {"a", "p"},
        y \in {StrY("r"), ListY(<<"b", "r">>)}, z \in {None, "s"},
        text \in {None, "q"}}

\* the raw specs of the validation runs: valid and invalid chart sections,
\* every mode, family-irrelevant fields set, y lists with duplicates, y2_for
\* inside and outside y, unknown top-level fields, with and without a layout
ParseSpecs ==
    {RawSpec(RawChart(type, mode, mods[1], mods[2], mods[3]),
             RawData(x, y, z, None, by, y2_for), extra, hasLayout) :
        type \in ChartType \cup {"bogus"}, mode \in {None, "markers", "lines+markers"},
        mods \in {<<None, None, None>>, <<"h", "stack", "percent">>},
        x \in {None, "a"},
        y \in {NoY, StrY("b"), ListY(<<"b", "c">>), ListY(<<"b", "b">>)},
        z \in {None, "c"}, by \in {None, "a"},
        y2_for \in {<<>>, <<"b">>, <<"q">>}, extra \in BOOLEAN,
        hasLayout \in BOOLEAN}

\* a spec without a data section, and a string that is not JSON
NoDataSpecs ==
    {[RawSpec(RawChart(type, None, None, None, None),
              RawData(None, NoY, None, None, None, <<>>), FALSE, FALSE)
        EXCEPT !.hasData = FALSE, !.wellformed = wf] :
        type \in ChartType, wf \in BOOLEAN}

ParseInputs == ParseSpecs \cup NoDataSpecs

\* the table of the validation runs
SampleTable == <<[a |-> 2, b |-> 1], [a |-> 1, b |-> 2]>>

\* the columns whose dtype has been cast to dates: in the caller's frame and in
\* the frame the builder works on
NoCast == [caller |-> {}, work |-> {}]

\* a coercion on the frame the builder was handed, without df.copy()
coerce_x_in_place(c, m) ==
    IF m.chart.type \in {"line", "scatter", "area"} /\ Truthy(m.data.x)
    THEN [caller |-> c.caller \cup {m.data.x}, work |-> c.work \cup {m.data.x}]
    ELSE c

\* _add_scatter_family: df = df.copy(); df[x] = pd.to_datetime(df[x]) when x
\* is bound and not of a date dtype; the other builders write to no frame
coerce_x(c, m) ==
    IF m.chart.type \in {"line", "scatter", "area"} /\ Truthy(m.data.x)
    THEN [caller |-> c.caller, work |-> c.work \cup {m.data.x}]
    ELSE c

\* a table of n rows whose column a holds n distinct keys
KeyedTable(n) == [i \in 1..n |-> [a |-> i, b |-> 1]]

\* tables with one key less than, exactly, and one key more than max_traces
WideTables == {KeyedTable(n) : n \in {MaxTraces - 1, MaxTraces, MaxTraces + 1}}

\* valid specs of every family that name the key column in series.by
GuardInputs ==
    {RawSpec(RawChart(type, None, None, barmode, None),
             RawData("a", StrY("b"), IF type = "heatmap" THEN "c" ELSE None, None,
                     "a", <<>>), FALSE, hasLayout) :
        type \in ChartType, barmode \in {None, "stack"}, hasLayout \in BOOLEAN}

\* specs of every family with and without labels.y, labels.series and the
\* static name, with y unbound, a column or a list, grouped or not
NameInputs ==
    {[RawSpec(RawChart(type, None, None, None, None),
              RawData("a", y, IF type = "heatmap" THEN "c" ELSE None, None, by, <<>>),
              FALSE, FALSE)
        EXCEPT !.data.labels_y = ly, !.data.labels_series = ls, !.data.name = nm] :
        type \in ChartType, y \in {NoY, StrY("b"), ListY(<<"b", "c">>)},
        by \in {None, "a"}, ly \in {NoLabels, [b |-> "B"]},
        ls \in {NoLabels, [k \in {"1"} |-> "one"]}, nm \in {None, "static"}}

\* the tables of the naming runs: every table of one row, and the sample
NameTables == TablesOfLen(1) \cup {SampleTable}

\* color strings: a name, '#RRGGBB', '#RRGGBBAA', the empty string, and two
\* strings that start with '#' and are not hex colors
Red == <<"r", "e", "d">>

Hex6 == <<"#", "f", "f", "0", "0", "0", "0">>

Hex8 == <<"#", "1", "2", "A", "B", "c", "d", "8", "0">>

EmptyStr == <<>>

ShortHex == <<"#", "1", "2">>

NotHex == <<"#", "g", "g", "g", "g", "g", "g">>

\* the values of a colorMap, or a colorway; <<>> is an absent or empty one
ColorLists == {<<>>, <<Hex6>>, <<Red, Hex8>>, <<EmptyStr>>, <<Hex6, EmptyStr>>,
               <<ShortHex>>, <<NotHex>>}

\* valid specs of every family with colors in data.colors and in the layout
ColorInputs ==
    {[RawSpec(RawChart(type, None, None, None, None),
              RawData("a", StrY("b"), IF type = "heatmap" THEN "c" ELSE None, None,
                      None, <<>>),
              FALSE, colorway # <<>>)
        EXCEPT !.data.color_map = color_map, !.colorway = colorway] :
        type \in ChartType, color_map \in ColorLists, colorway \in ColorLists}

-----------------------------------------------------------------------------
(* The front end, before anything is fetched or mounted                     *)

\* the query cache: no query yet
NoQueries == [cache |-> <<>>]

\* the comments panel before it is mounted: the server has no comment, the
\* query has no data, no event is queued, no mutation is in flight
NoMutation == [active |-> FALSE, prev |-> <<>>, tmp |-> 0]

NoFailure == [happened |-> FALSE, tmp |-> 0, before |-> <<>>, after |-> <<>>]

NoComments ==
    [mounted |-> FALSE, server |-> <<>>, defined |-> FALSE, cache |-> <<>>, existing |-> <<>>,
     events |-> <<>>, fetching |-> FALSE, mut |-> NoMutation, created |-> 0,
     failed |-> NoFailure]

\* the props of the Plot component: the revision of each of data, layout, config
FirstProps == [data |-> 0, layout |-> 0, config |-> 0]

\* the Plot component before it is mounted: no newPlot call, both refs null,
\* no graph in the div, no observer
Unmounted ==
    [phase |-> "initial", props |-> FirstProps, hasResizeObserver |-> FALSE,
     newPlot |-> "none", first |-> FirstProps, gdRef |-> FALSE, roRef |-> FALSE,
     graph |-> "none", shown |-> FirstProps, observing |-> FALSE]

-----------------------------------------------------------------------------
(* The state machine of one compile call                                    *)

NoLayout == [set |-> FALSE, yaxis2 |-> FALSE, barmode |-> None]

\* what the caller holds while the call has not returned
Nothing == [kind |-> "none", data |-> <<>>, layout |-> NoLayout,
            plotly_config |-> FALSE, viz_spec_version |-> None]

\* the go.Figure returned by compile_figure
Figure(data, layout) == [kind |-> "figure", data |-> data, layout |-> layout,
                         plotly_config |-> FALSE, viz_spec_version |-> None]

\* the dict returned by compile_payload
Payload(data, layout) == [kind |-> "payload", data |-> data, layout |-> layout,
                          plotly_config |-> TRUE, viz_spec_version |-> "1.0"]

Start == /\ pc = "start"
         /\ model = NoModel
         /\ pending = <<>>
         /\ traces = <<>>
         /\ layoutOut = NoLayout
         /\ outcome = "pending"
         /\ missing = <<>>
         /\ returned = Nothing
         /\ cast = NoCast
         /\ steps = <<>>
         /\ guardSeen = -1
         /\ qc = NoQueries
         /\ cm = NoComments
         /\ plot = Unmounted

Init == /\ entry \in Entries
        /\ raw \in CompileInputs \cup MissingInputs
        /\ table \in Tables
        /\ Start

InitParse == /\ entry \in Entries
             /\ raw \in ParseInputs
             /\ table = SampleTable
             /\ Start

InitGuard == /\ entry \in Entries
             /\ raw \in GuardInputs
             /\ table \in WideTables
             /\ Start

InitNames == /\ entry \in Entries
             /\ raw \in NameInputs
             /\ table \in NameTables
             /\ Start

InitColors == /\ entry \in Entries
              /\ raw \in ColorInputs
              /\ table \in NameTables
              /\ Start

\* an exception leaves the call: the caller gets the exception and nothing else
Raise(e) == /\ pc' = "raised"
            /\ outcome' = e

\* a step completes and control moves on
Goto(next, step) == /\ pc' = next
                    /\ steps' = Append(steps, step)
                    /\ outcome' = outcome

\* model = parse_viz_spec(spec), the first statement of both entry points
ParseVizSpec ==
    /\ pc = "start"
    /\ IF parse_viz_spec(raw) = "ok"
       THEN /\ model' = VizSpec(raw)
            /\ Goto("parsed", "validate")
       ELSE /\ Raise(parse_viz_spec(raw))
            /\ UNCHANGED <<model, steps>>
    /\ UNCHANGED <<missing, returned, cast, qc, cm, plot, entry, raw, table, pending, traces, layoutOut, guardSeen>>

\* compile_figure up to _ensure_columns (its own parse_viz_spec returns the
\* VizSpec it is given unchanged)
EnsureColumns ==
    /\ pc = "parsed"
    /\ missing' = ensure_columns(ReferencedColumns(model.data))
    /\ IF missing' # <<>>
       THEN Raise("MissingColumns") /\ UNCHANGED steps
       ELSE Goto("bound", "bind")
    /\ UNCHANGED <<returned, cast, qc, cm, plot, entry, raw, table, model, pending, traces, layoutOut, guardSeen>>

\* the family's builder starts: x is coerced, bindings are resolved and the rows grouped;
\* a frame bound to a trace axis is accepted or refused by the plotting library
GroupSeries ==
    /\ pc = "bound"
    /\ LET res == add_traces(table, model)
       IN \E accepted \in BOOLEAN :
            /\ ~accepted => SelectSeq(res.traces, LAMBDA tr : tr.ysrc = Frame) # <<>>
            /\ IF res.err # "ok"
               THEN Raise(res.err) /\ UNCHANGED <<steps, pending>>
               ELSE IF ~accepted
               THEN Raise("ValueError") /\ UNCHANGED <<steps, pending>>
               ELSE Goto("building", "group") /\ pending' = res.traces
    /\ cast' = coerce_x(cast, model)
    /\ UNCHANGED <<missing, returned, qc, cm, plot, entry, raw, table, model, traces, layoutOut, guardSeen>>

\* fig.add_trace(tr) for the next series
AddTrace ==
    /\ pc = "building"
    /\ pending # <<>>
    /\ traces' = Append(traces, Head(pending))
    /\ pending' = Tail(pending)
    /\ UNCHANGED <<missing, returned, cast, qc, cm, plot, entry, raw, table, pc, model, layoutOut, outcome, steps, guardSeen>>

\* a builder that may return before every series has been added
TracesBuiltEarly ==
    /\ pc = "building"
    /\ Goto("built", "build")
    /\ UNCHANGED <<missing, returned, cast, qc, cm, plot, entry, raw, table, model, pending, traces,
                   layoutOut, guardSeen>>

\* the family's builder returns
TracesBuilt ==
    /\ pc = "building"
    /\ pending = <<>>
    /\ Goto("built", "build")
    /\ UNCHANGED <<missing, returned, cast, qc, cm, plot, entry, raw, table, model, pending, traces,
                   layoutOut, guardSeen>>

\* if layout: fig.update_layout(...), with yaxis2 when y2_for is set
UpdateLayout ==
    /\ pc = "built"
    /\ layoutOut' = [layoutOut EXCEPT
                       !.set = model.hasLayout,
                       !.yaxis2 = model.hasLayout /\ model.data.y2_for # <<>>]
    /\ Goto("layout", "layout")
    /\ UNCHANGED <<missing, returned, cast, qc, cm, plot, entry, raw, table, model, pending, traces, guardSeen>>

\* a barmode step without the test of the family: if chart.barmode: ...
ApplyBarModeAnyFamily ==
    /\ pc = "layout"
    /\ layoutOut' = [layoutOut EXCEPT
                       !.barmode = IF model.chart.barmode # None
                                   THEN model.chart.barmode ELSE @]
    /\ Goto("barmode", "barmode")
    /\ UNCHANGED <<missing, returned, cast, qc, cm, plot, entry, raw, table, model, pending, traces, guardSeen>>

\* if chart.type == bar and chart.barmode: fig.update_layout(barmode=...)
ApplyBarMode ==
    /\ pc = "layout"
    /\ layoutOut' = [layoutOut EXCEPT
                       !.barmode = IF model.chart.type = "bar" /\ model.chart.barmode # None
                                   THEN model.chart.barmode ELSE @]
    /\ Goto("barmode", "barmode")
    /\ UNCHANGED <<missing, returned, cast, qc, cm, plot, entry, raw, table, model, pending, traces, guardSeen>>

\* a guard that refuses max_traces traces as well (count >= max_traces)
GuardTracesInclusive ==
    /\ pc = "barmode"
    /\ guardSeen' = Len(traces)
    /\ IF Len(traces) >= MaxTraces
       THEN Raise("TooManyTraces") /\ UNCHANGED steps
       ELSE Goto("guarded", "guard")
    /\ UNCHANGED <<missing, returned, cast, qc, cm, plot, entry, raw, table, model, pending, traces, layoutOut>>

\* _guard_traces(fig, max_traces=64)
GuardTraces ==
    /\ pc = "barmode"
    /\ guardSeen' = Len(traces)
    /\ IF Len(traces) > MaxTraces
       THEN Raise("TooManyTraces") /\ UNCHANGED steps
       ELSE Goto("guarded", "guard")
    /\ UNCHANGED <<missing, returned, cast, qc, cm, plot, entry, raw, table, model, pending, traces, layoutOut>>

\* return fig: to the caller of compile_figure, or back into compile_payload
ReturnFigure ==
    /\ pc = "guarded"
    /\ IF entry = "compile_figure"
       THEN /\ pc' = "done"
            /\ outcome' = "ok"
            /\ returned' = Figure(traces, layoutOut)
            /\ steps' = Append(steps, "return")
       ELSE /\ pc' = "payload"
            /\ UNCHANGED <<outcome, returned, steps>>
    /\ UNCHANGED <<missing, cast, qc, cm, plot, entry, raw, table, model, pending, traces, layoutOut, guardSeen>>

\* compile_payload without the json.dumps line: the payload is returned unchecked
SerializeCheckOmitted ==
    /\ pc = "payload"
    /\ pc' = "serialized"
    /\ UNCHANGED <<missing, returned, cast, qc, cm, plot, entry, raw, table, model, pending, traces, layoutOut, outcome,
                   steps, guardSeen>>

\* a check that reports an unencodable value as a CompileError of its own kind
SerializeCheckWrapped ==
    /\ pc = "payload"
    /\ \E encodable \in BOOLEAN :
         IF encodable
         THEN Goto("serialized", "serialize")
         ELSE Raise("NotSerializable") /\ UNCHANGED steps
    /\ UNCHANGED <<missing, returned, cast, qc, cm, plot, entry, raw, table, model, pending, traces,
                   layoutOut, guardSeen>>

\* json.dumps(payload): raises TypeError when a value of the figure is not
\* JSON-encodable, which depends on the cell values and the plotting library
SerializeCheck ==
    /\ pc = "payload"
    /\ \E encodable \in BOOLEAN :
         IF encodable
         THEN Goto("serialized", "serialize")
         ELSE Raise("TypeError") /\ UNCHANGED steps
    /\ UNCHANGED <<missing, returned, cast, qc, cm, plot, entry, raw, table, model, pending, traces,
                   layoutOut, guardSeen>>

\* return payload
ReturnPayload ==
    /\ pc = "serialized"
    /\ pc' = "done"
    /\ outcome' = "ok"
    /\ returned' = Payload(traces, layoutOut)
    /\ steps' = Append(steps, "return")
    /\ UNCHANGED <<missing, cast, qc, cm, plot, entry, raw, table, model, pending, traces, layoutOut, guardSeen>>

Next == \/ ParseVizSpec
        \/ EnsureColumns
        \/ GroupSeries
        \/ AddTrace
        \/ TracesBuilt
        \/ UpdateLayout
        \/ ApplyBarMode
        \/ GuardTraces
        \/ ReturnFigure
        \/ SerializeCheck
        \/ ReturnPayload

\* compile calls over every table up to MaxRows rows
Spec == Init /\ [][Next]_vars

\* compile calls over the raw specs of the validation runs
SpecParse == InitParse /\ [][Next]_vars

\* compile calls over tables with about max_traces series
SpecGuard == InitGuard /\ [][Next]_vars

\* compile calls over specs with labels and names
SpecNames == InitNames /\ [][Next]_vars

\* compile calls over specs with colors
SpecColors == InitColors /\ [][Next]_vars

-----------------------------------------------------------------------------
(* Properties of the compile call                                           *)

\* the call is over: it returned or it raised
Finished == pc \in {"done", "raised"}

\* the family's builder has returned: fig.data holds every trace of the call
BuildDone == "build" \in Range(steps)

\* the spec passed validation and the call went on with the model
Parsed == "validate" \in Range(steps)

\* the steps of compile_payload, in the order of the code
PayloadOrder == <<"validate", "bind", "group", "build", "layout", "barmode", "guard",
                  "serialize", "return">>

\* the steps of compile_figure called on its own: no serialization check
FigureOrder == <<"validate", "bind", "group", "build", "layout", "barmode", "guard",
                 "return">>

\* C1 as stated: every successful call, of compile_payload or of compile_figure,
\* has performed validate, bind, group, build, layout, barmode, guard, serialize
\* and return, in this order, and the guard saw the final number of traces.
C1_EveryCallFullOrder ==
    pc = "done" => steps = PayloadOrder /\ guardSeen = Len(traces)

\* C1 amended: a successful compile_payload call has performed validate, bind,
\* group, build, layout, barmode, guard, serialize, return in this order; a
\* successful compile_figure call the same steps without the serialization
\* check; in both the guard saw the final number of traces, and whenever the
\* guard has run the number of traces is the one it saw.
C1_StepOrder ==
    /\ pc = "done" =>
         steps = (IF entry = "compile_payload" THEN PayloadOrder ELSE FigureOrder)
    /\ guardSeen # -1 => guardSeen = Len(traces) /\ BuildDone /\ pending = <<>>

\* a compile_payload call that returned a figure of several traces
C1_Witness ==
    pc = "done" /\ entry = "compile_payload" /\ Len(traces) >= 2 /\ guardSeen = Len(traces)

-----------------------------------------------------------------------------
(* Properties of series and traces                                          *)

\* the families whose builders split the frame by series.by
GroupedFamilies == {"line", "scatter", "area", "bar"}

\* the series keys of the traces, in trace order
TraceKeys == [n \in 1..Len(traces) |-> traces[n].key]

\* the distinct non-missing values of a column
DistinctKeys(t, col) == {Cell(t, i, col) : i \in 1..Len(t)} \ {Null}

\* the spec of the call was accepted, it sets series.by, and all traces are built
GroupedAndBuilt == Parsed /\ BuildDone /\ Truthy(model.data.by)

C3_OneTracePerY ==
    (/\ Parsed /\ BuildDone
     /\ model.chart.type \in {"scatter", "line", "bar"}
     /\ model.data.y.kind = "list"
     /\ ~Truthy(model.data.by))
    => /\ Len(traces) = Len(model.data.y.cols)
       /\ \A n \in 1..Len(traces) :
            /\ traces[n].ycol = model.data.y.cols[n]
            /\ traces[n].rows = AllRows(table)
            /\ traces[n].key = NoKey

\* a bar chart of two y columns over a table of two rows
C3_Witness ==
    /\ Parsed /\ BuildDone
    /\ model.chart.type = "bar"
    /\ model.data.y = ListY(<<"b", "c">>)
    /\ Len(traces) = 2
    /\ Len(table) = 2

\* C4 as stated: with series.by set, the row subsets of the series partition the
\* table: every row is in exactly one series, every row of a series has the
\* series key in the group-by column, and each series keeps the table's order.
C4_SeriesPartitionRows ==
    (GroupedAndBuilt /\ model.chart.type \in GroupedFamilies) =>
       /\ \A i \in 1..Len(table) :
            Cardinality({n \in 1..Len(traces) : i \in Range(traces[n].rows)}) = 1
       /\ \A n \in 1..Len(traces) :
            /\ \A i \in Range(traces[n].rows) :
                 Cell(table, i, model.data.by) = traces[n].key
            /\ \A j, k \in 1..Len(traces[n].rows) :
                 j < k => traces[n].rows[j] < traces[n].rows[k]

-----------------------------------------------------------------------------
(* Properties of validation                                                 *)

\* parse_viz_spec has run on the raw spec
ParseRan == pc # "start"

\* C5 as stated: a spec with a list y and series.by set is rejected with a
\* validation error, whatever the chart type, and is never compiled.
C5_ListYWithSeriesByRejected ==
    (/\ ParseRan /\ raw.wellformed /\ raw.hasData
     /\ raw.data.y.kind = "list" /\ Truthy(raw.data.by))
    => pc = "raised" /\ outcome = "SpecValidationError"

\* C6 as stated: a spec whose y2_for names a column outside its list y is
\* rejected by parse_viz_spec with SpecValidationError and is never compiled.
C6_Y2ForOutsideYRejected ==
    (/\ ParseRan /\ raw.wellformed /\ raw.hasData
     /\ raw.data.y.kind = "list"
     /\ Range(raw.data.y2_for) \ Range(raw.data.y.cols) # {})
    => pc = "raised" /\ outcome = "SpecValidationError"

\* C7: an area spec with mode markers fails validation, and an area spec that
\* passed validation has mode lines or lines+markers, also when mode was omitted.
C7_AreaNeedsLineMode ==
    /\ (/\ ParseRan /\ raw.wellformed /\ raw.hasChart
        /\ raw.chart.type = "area" /\ raw.chart.mode = "markers")
       => pc = "raised" /\ outcome = "SpecValidationError"
    /\ (Parsed /\ model.chart.type = "area")
       => model.chart.mode \in {"lines", "lines+markers"}

\* an area spec with mode markers and nothing else wrong was rejected
C7_Witness ==
    /\ outcome = "SpecValidationError"
    /\ raw.chart.type = "area" /\ raw.chart.mode = "markers"
    /\ DataOk(raw) /\ ~raw.extra
    /\ ~Y2ForBad(raw.data) /\ ~ListYWithSeriesBy(raw.data)

\* C8 as stated: a heatmap spec with x, y or z unbound fails validation, and a
\* heatmap spec that reaches the heatmap builder has x, y and z bound.
C8_HeatmapNeedsXYZ ==
    /\ (/\ ParseRan /\ raw.wellformed /\ raw.hasChart /\ raw.chart.type = "heatmap"
        /\ (~raw.hasData \/ HeatmapMissing(raw.data) # {}))
       => pc = "raised" /\ outcome = "SpecValidationError"
    /\ (Parsed /\ model.chart.type = "heatmap") => HeatmapMissing(model.data) = {}

-----------------------------------------------------------------------------
(* Properties of the heatmap and pie builders                               *)

\* every column the accepted spec refers to is a column of the table
ColumnsBound == ensure_columns(ReferencedColumns(model.data)) = <<>>

\* the accepted spec is a long-form heatmap over a table with a repeated (x, y)
LongFormDuplicates ==
    /\ Parsed
    /\ model.chart.type = "heatmap"
    /\ Truthy(model.data.x) /\ model.data.y.kind = "str" /\ Truthy(model.data.z)
    /\ model.data.x \in Columns /\ model.data.y.cols[1] \in Columns
    /\ duplicated(table, model.data.x, model.data.y.cols[1])

\* C9: a long-form heatmap over a table in which rows share an (x, y) pair never
\* yields a figure or a trace, and, its columns being in the table, the call
\* fails with the ambiguous-aggregation CompileError.
C9_DuplicateCellsRejected ==
    LongFormDuplicates =>
       /\ traces = <<>> /\ pc # "done"
       /\ (Finished /\ ColumnsBound) => outcome = "AmbiguousAggregation"

\* a heatmap call over two rows with the same (x, y) failed in the builder
C9_Witness ==
    /\ LongFormDuplicates
    /\ Len(table) = 2
    /\ steps = <<"validate", "bind">>
    /\ outcome = "AmbiguousAggregation"

\* the raw spec is a pie chart without x or without y, every field of it is
\* well-typed and no other cross-field rule is broken
PieUnbound ==
    /\ raw.wellformed /\ ~raw.extra /\ ChartOk(raw) /\ DataOk(raw)
    /\ ~Y2ForBad(raw.data) /\ ~ListYWithSeriesBy(raw.data)
    /\ raw.chart.type = "pie"
    /\ (~Truthy(raw.data.x) \/ raw.data.y.kind = "none")

\* C10: a pie spec without x or without y, with nothing else wrong, passes
\* validation and fails at compile time with the missing-binding CompileError;
\* it is never rejected by validation and never yields a figure or a trace.
C10_PieMissingBinding ==
    (PieUnbound /\ ParseRan) =>
       /\ Parsed
       /\ traces = <<>> /\ pc # "done"
       /\ (Finished /\ ColumnsBound) => outcome = "MissingBinding"

\* a pie call without y passed validation and binding and failed in the builder
C10_Witness ==
    /\ PieUnbound
    /\ raw.data.y.kind = "none" /\ Truthy(raw.data.x)
    /\ steps = <<"validate", "bind">>
    /\ outcome = "MissingBinding"

-----------------------------------------------------------------------------
(* Properties of the guard, the binder and the failure classes              *)

\* the names among x, the entries of y, z and text that are not in the table
MissingNames(d) == {c \in ({d.x, d.z, d.text} \cup Range(d.y.cols)) \ {None} :
                      c \notin Columns}

\* _ensure_columns has run on the accepted spec
BinderRan == Parsed /\ pc # "parsed"

C11_TooManyTracesIffOverLimit ==
    /\ outcome = "TooManyTraces" =>
         /\ BuildDone /\ pending = <<>>
         /\ Len(traces) > MaxTraces
         /\ steps = <<"validate", "bind", "group", "build", "layout", "barmode">>
    /\ (BuildDone /\ Len(traces) > MaxTraces) =>
         /\ pc # "done"
         /\ "guard" \notin Range(steps)
         /\ Finished => outcome = "TooManyTraces"
    /\ (guardSeen # -1 /\ guardSeen <= MaxTraces) => outcome # "TooManyTraces"

\* a grouped chart of max_traces + 1 series was refused by the guard
C11_Witness ==
    /\ outcome = "TooManyTraces"
    /\ Len(traces) = MaxTraces + 1
    /\ model.chart.type \in GroupedFamilies

\* parse_viz_spec refused the raw spec
ParseFailed == pc = "raised" /\ ~Parsed

\* C13 as stated: input that is not well-formed structured data fails with
\* SpecParseError and never with SpecValidationError, and well-formed input
\* that parse_viz_spec refuses fails with SpecValidationError and never with
\* SpecParseError.
C13_FailureClassesApart ==
    /\ (ParseRan /\ ~raw.wellformed) => ParseFailed /\ outcome = "SpecParseError"
    /\ (ParseFailed /\ raw.wellformed) => outcome = "SpecValidationError"

\* C14: a call ends in one of two ways: it returns a complete result (every
\* trace of the family's builder, the layout with barmode applied, and for
\* compile_payload the render config and the spec version), or it raises and
\* the caller holds nothing; no failing step hands out a figure.
C14_PayloadOrFailure ==
    /\ returned # Nothing => pc = "done"
    /\ pc = "raised" => outcome # "ok" /\ outcome # "pending" /\ returned = Nothing
    /\ pc = "done" =>
         /\ outcome = "ok"
         /\ returned.kind = (IF entry = "compile_payload" THEN "payload" ELSE "figure")
         /\ returned.data = add_traces(table, model).traces
         /\ returned.layout.set = model.hasLayout
         /\ (model.chart.type = "bar" /\ model.chart.barmode # None)
               => returned.layout.barmode = model.chart.barmode
         /\ entry = "compile_payload" =>
               returned.plotly_config /\ returned.viz_spec_version = "1.0"

\* the serialization check failed on a figure of two traces: nothing returned
C14_Witness ==
    /\ pc = "raised" /\ outcome = "TypeError"
    /\ Len(traces) = 2 /\ "guard" \in Range(steps)
    /\ returned = Nothing

-----------------------------------------------------------------------------
(* Properties of the accepted VizSpec                                       *)

\* C15: the canonical form of an accepted VizSpec parses again, to a VizSpec
\* equal to the first (same defaults, same reset fields), and parse_viz_spec
\* applied to the VizSpec itself returns it.
C15_ValidationIdempotent ==
    Parsed =>
       /\ parse_viz_spec(Serialize(model)) = "ok"
       /\ VizSpec(Serialize(model)) = model
       /\ parse_viz_spec_instance(model) = model

\* an accepted spec whose mode was defaulted and whose orientation was reset
C15_Witness ==
    /\ Parsed
    /\ raw.chart.mode = None /\ model.chart.mode = "lines"
    /\ raw.chart.orientation = "h" /\ model.chart.orientation = None

\* C16: a raw spec with a top-level key that is not a field of VizSpec is
\* refused by parse_viz_spec, and no accepted VizSpec came from such a spec.
C16_UnknownTopLevelRejected ==
    /\ (ParseRan /\ raw.extra) => ParseFailed
    /\ Parsed => ~raw.extra

\* a spec with an unknown top-level key and nothing else wrong was refused
C16_Witness ==
    /\ ParseFailed /\ outcome = "SpecValidationError"
    /\ raw.extra /\ raw.wellformed /\ ChartOk(raw) /\ DataOk(raw)
    /\ semantic_checks(TRUE, defaults_and_semantics(raw.chart), TRUE, raw.data) = "ok"

-----------------------------------------------------------------------------
(* Properties of the layout                                                 *)

\* some trace of the returned figure is on the secondary axis
SomeTraceOnY2 == \E n \in 1..Len(returned.data) : returned.data[n].y2

\* C18 as stated: the returned layout defines yaxis2 exactly when a trace of
\* the figure is routed to y2, with or without a layout section, and a trace of
\* a line, scatter, area or bar chart is routed to y2 exactly when its y
\* column is listed in y2_for.
C18_Yaxis2IffTraceOnY2 ==
    pc = "done" =>
       /\ returned.layout.yaxis2 <=> SomeTraceOnY2
       /\ model.chart.type \in GroupedFamilies =>
            \A n \in 1..Len(returned.data) :
               returned.data[n].y2 <=> returned.data[n].ycol \in Range(model.data.y2_for)

\* the barmode step of compile_figure has run
BarModeStepRan == "barmode" \in Range(steps)

\* C19: after the barmode step the layout carries barmode, with the value of
\* the spec, exactly when the chart is a bar chart and barmode is specified,
\* whatever the number of traces and with or without a layout section; the
\* step runs once per call, before it the layout has no barmode, and a
\* returned figure of a non-bar chart has none.
C19_BarModeOnLayoutIffBar ==
    /\ BarModeStepRan =>
         layoutOut.barmode = (IF model.chart.type = "bar" THEN model.chart.barmode ELSE None)
    /\ ~BarModeStepRan => layoutOut.barmode = None
    /\ Cardinality({i \in 1..Len(steps) : steps[i] = "barmode"}) <= 1
    /\ (pc = "done" /\ model.chart.type # "bar") => returned.layout.barmode = None

\* a bar chart of a single trace, without a layout section, returned with barmode
C19_Witness ==
    /\ pc = "done"
    /\ model.chart.type = "bar" /\ ~model.hasLayout
    /\ Len(returned.data) = 1
    /\ returned.layout.barmode = "stack"

-----------------------------------------------------------------------------
(* Properties of the bar builder                                            *)

\* the accepted spec is a bar chart and its builder has returned
BarBuilt == Parsed /\ BuildDone /\ model.chart.type = "bar"

\* C20 as stated: in a vertical bar chart (orientation v or unset) every trace
\* takes its x values from the x column and its y values from its y column; in
\* a horizontal one the roles are swapped: x values from the y column, y
\* values from the x column; for a single y, a list y and series.by alike.
C20_OrientationSwapsRoles ==
    BarBuilt =>
       \A n \in 1..Len(traces) :
          IF model.chart.orientation = "h"
          THEN traces[n].xsrc = traces[n].ycol /\ traces[n].ysrc = model.data.x
          ELSE traces[n].xsrc = model.data.x /\ traces[n].ysrc = traces[n].ycol

-----------------------------------------------------------------------------
(* Properties of trace names                                                *)

\* the name the default policy gives: the labels.series entry of the series
\* key or the key itself; without a key the labels.y entry of the y column or
\* the column name; the empty string without both
DefaultName(d, key, ycol) ==
    IF key # NoKey THEN Get(d.labels_series, ToString(key), ToString(key))
    ELSE IF ycol # None THEN Get(d.labels_y, ycol, ycol)
    ELSE ""

\* the y column of a trace: its own, or the spec's for histogram and heatmap
YColumnOf(tr) == IF tr.family \in {"histogram", "heatmap"}
                 THEN first_y(model.data.y) ELSE tr.ycol

-----------------------------------------------------------------------------
(* Properties of the serialization check and of the error types             *)

\* the call failed after the trace guard had passed: in the json.dumps check
SerializeFailed == pc = "raised" /\ "guard" \in Range(steps)

-----------------------------------------------------------------------------
(* Properties of the inputs                                                 *)

\* C23: no step of a compile call, successful or failed, of any family, changes
\* the caller's table or the spec it was given, the VizSpec is not changed once
\* it is built, and the date coercion of the x column never reaches the
\* caller's frame: it is applied to the builder's own copy.
C23_InputsNeverMutated ==
    /\ [](cast.caller = {})
    /\ [][/\ table' = table
          /\ raw' = raw
          /\ Parsed => model' = model]_vars

\* a scatter call returned after coercing column a in its working copy
C23_Witness ==
    /\ pc = "done"
    /\ model.chart.type = "scatter"
    /\ cast.work = {"a"} /\ cast.caller = {}

\* the spec has the empty string among its colorMap or colorway colors
HasEmptyColor == EmptyStr \in Range(raw.data.color_map) \cup Range(raw.colorway)

\* C27 as stated: a spec whose colors.colorMap or layout.colorway contains the
\* empty string is rejected with a validation error.
C27_EmptyColorRejected ==
    (ParseRan /\ HasEmptyColor) => (ParseFailed /\ outcome = "SpecValidationError")

\* C28 as stated: for a spec that passes validation, compile_figure returns a
\* figure or fails with CompileError, never with another error type.
C28_FigureOrCompileError ==
    (entry = "compile_figure" /\ Parsed /\ Finished) =>
        \/ pc = "done" /\ returned.kind = "figure"
        \/ pc = "raised" /\ outcome \in CompileErrors

\* the builder has pivoted a long-form heatmap
LongFormHeatmap ==
    /\ Parsed /\ BuildDone /\ traces # <<>>
    /\ traces[1].family = "heatmap" /\ traces[1].xsrc # None

\* no row of the table misses its x or its y value
NoMissingKeys ==
    \A i \in 1..Len(table) : /\ Cell(table, i, traces[1].xsrc) # Null
                             /\ Cell(table, i, traces[1].ysrc) # Null

\* the distinct values of a column
Distinct(col) == {Cell(table, i, col) : i \in 1..Len(table)}

\* the place of row i's value among the column's values in ascending order
SortedPlace(i, col) ==
    1 + Cardinality({w \in Distinct(col) : w < Cell(table, i, col)})

\* the place of row i's value among the column's values in the order they
\* first appear in the table
FirstSeenPlace(i, col) ==
    LET v == Cell(table, i, col)
        first == Min({j \in 1..Len(table) : Cell(table, j, col) = v})
    IN 1 + Cardinality({Cell(table, j, col) : j \in 1..(first - 1)})

\* one row per distinct y, one column per distinct x
OneRowPerYOneColumnPerX ==
    LET tr == traces[1]
    IN /\ Len(tr.y) = Cardinality(Distinct(tr.ysrc))
       /\ Len(tr.x) = Cardinality(Distinct(tr.xsrc))
       /\ Len(tr.z) = Len(tr.y)
       /\ \A r \in 1..Len(tr.z) : Len(tr.z[r]) = Len(tr.x)

\* C26 as stated: the rows are the distinct y values and the columns the
\* distinct x values, both in the order they first appear in the table, and the
\* cell at (row y, column x) is the z value of the row with that pair.
C26_MatrixFirstSeenOrder ==
    (LongFormHeatmap /\ NoMissingKeys) =>
        LET tr == traces[1]
        IN /\ OneRowPerYOneColumnPerX
           /\ \A i \in 1..Len(table) :
                 LET r == FirstSeenPlace(i, tr.ysrc)
                     c == FirstSeenPlace(i, tr.xsrc)
                 IN /\ tr.y[r] = astype_str(Cell(table, i, tr.ysrc))
                    /\ tr.x[c] = astype_str(Cell(table, i, tr.xsrc))
                    /\ tr.z[r][c] = Cell(table, i, model.data.z)

\* C26: for a table in which no x or y value is missing, the rows are the
\* distinct y values and the columns the distinct x values, both in ascending
\* order; the cell at (row y, column x) is the z value of the row with that
\* pair, and is empty where the table has no row with that pair.
C26_MatrixSortedOrder ==
    (LongFormHeatmap /\ NoMissingKeys) =>
        LET tr == traces[1]
            filled == {<<SortedPlace(i, tr.ysrc), SortedPlace(i, tr.xsrc)>> :
                          i \in 1..Len(table)}
        IN /\ OneRowPerYOneColumnPerX
           /\ \A i \in 1..Len(table) :
                 LET r == SortedPlace(i, tr.ysrc)
                     c == SortedPlace(i, tr.xsrc)
                 IN /\ tr.y[r] = astype_str(Cell(table, i, tr.ysrc))
                    /\ tr.x[c] = astype_str(Cell(table, i, tr.xsrc))
                    /\ tr.z[r][c] = Cell(table, i, model.data.z)
           /\ \A r \in 1..Len(tr.y), c \in 1..Len(tr.x) :
                 <<r, c>> \notin filled => tr.z[r][c] = Null

\* a heatmap of a table whose y values first appear as 2, 1 and whose x values
\* first appear as 2, 1: the rows and columns come out as 1, 2
C26_Witness ==
    /\ LongFormHeatmap /\ pc = "done"
    /\ table = <<[a |-> 2, b |-> 2], [a |-> 1, b |-> 1]>>
    /\ traces[1].y = <<"1", "2">> /\ traces[1].x = <<"1", "2">>
    /\ traces[1].z = <<<<12, Null>>, <<Null, 11>>>>

-----------------------------------------------------------------------------
(* The dashboard query cache: src/file.ts, hooks/dashboard                  *)

MaxQueries == 3

SpecIds == {"s1", "s2"}

WidgetIds == {"w1", "w2"}

WidgetKinds == {"kpi", "table", "figure"}

\* the params argument of a widget query; None is an omitted argument
ParamsArgs == {None, "{page:2}"}

\* params ?? {}
OrEmpty(params) == IF params = None THEN "{}" ELSE params

\* the query key factory qk
qk_spec(specId) == <<"spec", specId>>

qk_widgetKpi(specId, widgetId, params) ==
    <<"widget", specId, "kpi", widgetId, OrEmpty(params)>>

qk_widgetTable(specId, widgetId, params) ==
    <<"widget", specId, "table", widgetId, OrEmpty(params)>>

qk_widgetFigure(specId, widgetId, params) ==
    <<"widget", specId, "figure", widgetId, OrEmpty(params)>>

qk_widget(kind, specId, widgetId, params) ==
    CASE kind = "kpi" -> qk_widgetKpi(specId, widgetId, params)
      [] kind = "table" -> qk_widgetTable(specId, widgetId, params)
      [] kind = "figure" -> qk_widgetFigure(specId, widgetId, params)

\* invalidateQueries({ queryKey }) matches every query whose key starts with
\* the filter's key, element by element
partialMatchKey(key, filter) ==
    /\ Len(key) >= Len(filter)
    /\ \A i \in 1..Len(filter) : key[i] = filter[i]

invalidateQueries(cache, filter) ==
    [k \in DOMAIN cache |->
        IF partialMatchKey(k, filter) THEN "invalidated" ELSE cache[k]]

\* a query is fetched into the cache, or fetched again: its data is fresh
Fetched(key) ==
    /\ key \in DOMAIN qc.cache \/ Cardinality(DOMAIN qc.cache) < MaxQueries
    /\ qc' = [qc EXCEPT !.cache =
                 [k \in DOMAIN qc.cache \cup {key} |->
                     IF k = key THEN "fresh" ELSE qc.cache[k]]]
    /\ UNCHANGED <<engineVars, cm, plot>>

\* useQuery(specQuery(specId))
SpecQuery(specId) == Fetched(qk_spec(specId))

\* useQuery(widgetKpiQuery / widgetTableQuery / widgetFigureQuery (...))
WidgetQuery(kind, specId, widgetId, params) ==
    Fetched(qk_widget(kind, specId, widgetId, params))

\* a filter of ['widget'] alone: the widgets of every spec
invalidateWidgetsForAnySpec(specId) ==
    /\ qc' = [qc EXCEPT !.cache = invalidateQueries(qc.cache, <<"widget">>)]
    /\ UNCHANGED <<engineVars, cm, plot>>

invalidateWidgetsForSpec(specId) ==
    /\ qc' = [qc EXCEPT !.cache = invalidateQueries(qc.cache, <<"widget", specId>>)]
    /\ UNCHANGED <<engineVars, cm, plot>>

invalidateSpec(specId) ==
    /\ qc' = [qc EXCEPT !.cache = invalidateQueries(qc.cache, qk_spec(specId))]
    /\ UNCHANGED <<engineVars, cm, plot>>

\* the compile engine is idle while the front end runs
EngineIdle ==
    /\ entry = "compile_figure"
    /\ raw = RawSpec(RawChart("scatter", None, None, None, None), RawData("a", NoY, None, None, None, <<>>), FALSE, FALSE)
    /\ table = <<>>
    /\ Start

InitCache == EngineIdle

NextCache ==
    \/ \E specId \in SpecIds : SpecQuery(specId)
    \/ \E kind \in WidgetKinds, specId \in SpecIds, widgetId \in WidgetIds,
          params \in ParamsArgs : WidgetQuery(kind, specId, widgetId, params)
    \/ \E specId \in SpecIds : invalidateWidgetsForSpec(specId)
    \/ \E specId \in SpecIds : invalidateSpec(specId)

SpecCache == InitCache /\ [][NextCache]_vars

\* the widget queries of one spec: every kind, widget and params
WidgetKeysOf(specId) ==
    {qk_widget(kind, specId, widgetId, params) :
        kind \in WidgetKinds, widgetId \in WidgetIds, params \in ParamsArgs}

\* C24: invalidateWidgetsForSpec(specId) invalidates every cached widget
\* query of that spec, whatever its kind, widget or params, and leaves every
\* other cached query, the widget queries of other specs and the spec queries
\* included, as it was.
C24_InvalidatesWidgetsOfSpecOnly ==
    [][\A specId \in SpecIds : invalidateWidgetsForSpec(specId) =>
          /\ DOMAIN qc'.cache = DOMAIN qc.cache
          /\ \A k \in DOMAIN qc.cache :
                qc'.cache[k] = IF k \in WidgetKeysOf(specId)
                               THEN "invalidated" ELSE qc.cache[k]]_vars

\* invalidateWidgetsForSpec("s1") has run, the only step that invalidates a
\* widget query of s1, and three queries were cached at the time: the table of
\* s1 is invalidated, a kpi of s2 and the spec query of s1 are still fresh
C24_Witness ==
    /\ Cardinality(DOMAIN qc.cache) = MaxQueries
    /\ qk_widgetTable("s1", "w2", "{page:2}") \in DOMAIN qc.cache
    /\ qc.cache[qk_widgetTable("s1", "w2", "{page:2}")] = "invalidated"
    /\ qk_widgetKpi("s2", "w2", "{page:2}") \in DOMAIN qc.cache
    /\ qc.cache[qk_widgetKpi("s2", "w2", "{page:2}")] = "fresh"
    /\ qk_spec("s1") \in DOMAIN qc.cache
    /\ qc.cache[qk_spec("s1")] = "fresh"

-----------------------------------------------------------------------------
(* The comments panel: src/tanquery_stack.md, Comments                      *)

MaxComments == 2

MaxMutations == 2

\* the comments other users post have ids 1, 2, ...; this is the id the
\* server gives the n-th comment this user creates
CreatedId(n) == 10 + n

\* `tmp-${Date.now()}`: the id of the n-th optimistic comment
TmpId(n) == 0 - n

Ids(list) == Range(list)

\* the panel mounts on an entity with no comment or one comment; the query
\* has no data yet, or data cached by an earlier mount (then it may be fresh
\* and not fetched again); the effect's handler closes over q.data of this
\* first render
MountComments ==
    /\ ~cm.mounted
    /\ \E server \in {<<>>, <<1>>}, cached \in BOOLEAN, fresh \in BOOLEAN :
          /\ fresh => cached
          /\ cm' = [cm EXCEPT !.mounted = TRUE,
                              !.server = server,
                              !.defined = cached,
                              !.cache = IF cached THEN server ELSE <<>>,
                              !.existing = IF cached THEN server ELSE <<>>,
                              !.fetching = ~fresh]
    /\ UNCHANGED <<engineVars, qc, plot>>

\* listComments resolves: the query's data is the server's list
ListCommentsResolves ==
    /\ cm.mounted
    /\ cm.fetching
    /\ cm' = [cm EXCEPT !.fetching = FALSE, !.defined = TRUE, !.cache = cm.server]
    /\ UNCHANGED <<engineVars, qc, plot>>

\* another user posts a comment: the server stores it and emits a 'comment' event
CommentPosted ==
    /\ cm.mounted
    /\ Cardinality({c \in Ids(cm.server) : c < CreatedId(0)}) < MaxComments
    /\ LET id == 1 + Cardinality({c \in Ids(cm.server) : c < CreatedId(0)})
       IN cm' = [cm EXCEPT !.server = <<id>> \o cm.server,
                           !.events = Append(cm.events, id)]
    /\ UNCHANGED <<engineVars, qc, plot>>

\* the SSE handler: existing is q.data of the render that ran the effect
SseComment ==
    /\ cm.events # <<>>
    /\ LET data == Head(cm.events)
           dup == data \in Ids(cm.existing)
       IN cm' = [cm EXCEPT !.events = Tail(cm.events),
                           !.defined = IF dup THEN cm.defined ELSE TRUE,
                           !.cache = IF dup THEN cm.cache
                                     ELSE <<data>> \o cm.existing]
    /\ UNCHANGED <<engineVars, qc, plot>>

\* m.mutate(text): onMutate cancels the fetch, keeps prev, inserts the
\* optimistic comment
Mutate ==
    /\ cm.mounted
    /\ ~cm.mut.active
    /\ cm.created < MaxMutations
    /\ LET prev == cm.cache   \* getQueryData(key) ?? []
           optimistic == TmpId(cm.created + 1)
       IN cm' = [cm EXCEPT !.fetching = FALSE,
                           !.defined = TRUE,
                           !.cache = <<optimistic>> \o prev,
                           !.created = cm.created + 1,
                           !.mut = [active |-> TRUE, prev |-> prev, tmp |-> optimistic]]
    /\ UNCHANGED <<engineVars, qc, plot>>

\* onError: ctx.prev is an array, always truthy, and replaces the data
onError(cache, ctx) == ctx.prev

\* createComment rejects: onError, then onSettled invalidates and refetches
MutationFails ==
    /\ cm.mut.active
    /\ LET after == onError(cm.cache, cm.mut)
       IN cm' = [cm EXCEPT !.cache = after,
                           !.fetching = TRUE,
                           !.mut = NoMutation,
                           !.failed = [happened |-> TRUE, tmp |-> cm.mut.tmp,
                                       before |-> cm.cache, after |-> after]]
    /\ UNCHANGED <<engineVars, qc, plot>>

\* createComment resolves: the server stores the comment; onSettled
\* invalidates and refetches
MutationSucceeds ==
    /\ cm.mut.active
    /\ cm' = [cm EXCEPT !.server = <<CreatedId(cm.created)>> \o cm.server,
                        !.fetching = TRUE,
                        !.mut = NoMutation]
    /\ UNCHANGED <<engineVars, qc, plot>>

InitComments == EngineIdle

NextComments ==
    \/ MountComments
    \/ ListCommentsResolves
    \/ CommentPosted
    \/ SseComment
    \/ Mutate
    \/ MutationFails
    \/ MutationSucceeds

SpecComments == InitComments /\ [][NextComments]_vars

\* C25: when the create-comment mutation fails, the cached list no longer
\* contains the optimistic tmp- comment and still contains every other comment
\* that was in the cache, those inserted by a 'comment' event since the
\* optimistic insert included.
C25_RollbackKeepsOtherComments ==
    cm.failed.happened =>
        /\ cm.failed.tmp \notin Ids(cm.failed.after)
        /\ \A c \in Ids(cm.failed.before) \ {cm.failed.tmp} :
              c \in Ids(cm.failed.after)

-----------------------------------------------------------------------------
(* The Plot component: src/PlotlyFig3.tsx                                   *)

MaxRevisions == 2

PropNames == {"data", "layout", "config"}

\* the first render and its effects: the init effect calls Plotly.newPlot with
\* the props of this render; the update effect finds gdRef.current null and
\* returns
MountPlot ==
    /\ plot.phase = "initial"
    /\ \E inWindow \in BOOLEAN :
          plot' = [plot EXCEPT !.phase = "mounted",
                               !.hasResizeObserver = inWindow,
                               !.newPlot = "pending",
                               !.first = plot.props]
    /\ UNCHANGED <<engineVars, qc, cm>>

\* the parent passes a new data, layout or config: the component renders again
\* and the update effect runs; with gdRef.current null it returns, otherwise
\* Plotly.react draws the new props
SetProps ==
    /\ plot.phase = "mounted"
    /\ \E name \in PropNames :
          /\ plot.props[name] < MaxRevisions
          /\ LET next == [plot.props EXCEPT ![name] = @ + 1]
             IN plot' = [plot EXCEPT !.props = next,
                                     !.shown = IF plot.gdRef THEN next ELSE plot.shown]
    /\ UNCHANGED <<engineVars, qc, cm>>

\* the promise of Plotly.newPlot resolves, mounted or not: the graph shows the
\* props of the first render, gdRef is set, and a ResizeObserver is created and
\* observes the div when roRef is null and the window has ResizeObserver
NewPlotResolves ==
    /\ plot.newPlot = "pending"
    /\ LET observe == ~plot.roRef /\ plot.hasResizeObserver
       IN plot' = [plot EXCEPT !.newPlot = "resolved",
                               !.graph = "drawn",
                               !.shown = plot.first,
                               !.gdRef = TRUE,
                               !.roRef = plot.roRef \/ observe,
                               !.observing = plot.observing \/ observe]
    /\ UNCHANGED <<engineVars, qc, cm>>

\* the promise of Plotly.newPlot rejects: onError is called, gdRef stays null
NewPlotRejects ==
    /\ plot.newPlot = "pending"
    /\ plot' = [plot EXCEPT !.newPlot = "rejected"]
    /\ UNCHANGED <<engineVars, qc, cm>>

\* the component unmounts: the cleanup of the init effect disconnects the
\* observer of roRef and purges the graph of gdRef, if they are set
UnmountPlot ==
    /\ plot.phase = "mounted"
    /\ plot' = [plot EXCEPT !.phase = "unmounted",
                            !.observing = IF plot.roRef THEN FALSE ELSE plot.observing,
                            !.roRef = FALSE,
                            !.graph = IF plot.gdRef THEN "purged" ELSE plot.graph,
                            !.gdRef = FALSE]
    /\ UNCHANGED <<engineVars, qc, cm>>

InitPlot == EngineIdle

NextPlot ==
    \/ MountPlot
    \/ SetProps
    \/ NewPlotResolves
    \/ NewPlotRejects
    \/ UnmountPlot

SpecPlot == InitPlot /\ [][NextPlot]_vars

\* a promise that is pending settles: it resolves or it rejects
SpecPlotLive == SpecPlot /\ WF_vars(NewPlotResolves \/ NewPlotRejects)

\* C29 as stated: after any sequence of prop updates following mount the chart
\* eventually renders the most recent props, whenever newPlot resolves, updates
\* that arrive before it resolves included.
C29_EventuallyRendersLatest ==
    <>[]((plot.phase = "mounted" /\ plot.newPlot # "rejected") =>
            (plot.graph = "drawn" /\ plot.shown = plot.props))

\* C30 as stated: once the component has been unmounted, the graph is purged
\* and no ResizeObserver remains connected, also when the unmount comes before
\* newPlot resolves.
C30_UnmountedPurgedAndDisconnected ==
    plot.phase = "unmounted" => (plot.graph # "drawn" /\ ~plot.observing)

====
